---- MODULE Spec2Model ----
(***************************************************************************)
(* regpath: a pathlib-like RegistryPath over the Windows registry.         *)
(*                                                                         *)
(* Strings are sequences of symbols.  A symbol is either a single          *)
(* character ("\\", "/") or an indivisible run of characters that contains *)
(* no backslash ("HKLM", "a", "computer", ...).  split, join, upper, lower *)
(* and lstrip work on these sequences as str's methods work on characters. *)
(* An optional string (str | None) is <<>> for None and <<s>> for s.       *)
(***************************************************************************)
EXTENDS Integers, Sequences, FiniteSets, TLC

\* ------------------------------------------------------------- strings

Sep == "\\"

NoneVal == <<>>

Some(s) == <<s>>

EmptyStr == <<>>

\* One-symbol string.
Str(c) == <<c>>

\* The ten aliases of REGISTRY_KEYS, and a lower-case and a mixed-case
\* spelling of each (same index, same alias).
AliasUpper ==
  << "HKCR", "HKEY_CLASSES_ROOT", "HKCU", "HKEY_CURRENT_USER", "HKLM",
     "HKEY_LOCAL_MACHINE", "HKU", "HKEY_USERS", "HKCC", "HKEY_CURRENT_CONFIG" >>

AliasLower ==
  << "hkcr", "hkey_classes_root", "hkcu", "hkey_current_user", "hklm",
     "hkey_local_machine", "hku", "hkey_users", "hkcc", "hkey_current_config" >>

AliasMixed ==
  << "Hkcr", "Hkey_Classes_Root", "Hkcu", "Hkey_Current_User", "Hklm",
     "Hkey_Local_Machine", "Hku", "Hkey_Users", "Hkcc", "Hkey_Current_Config" >>

AliasIdx == 1..10

\* Other cased symbols: <<lower, upper, other spellings...>>.
CasedWords ==
  { << "computer", "COMPUTER", "Computer" >>,
    << "notrealkey", "NOTREALKEY", "NotRealKey" >>,
    << "a", "A" >>, << "b", "B" >>, << "v", "V" >>, << "w", "W" >>,
    << "h1", "H1" >> }

\* str.upper() of one symbol.
UpperSym(c) ==
  IF \E i \in AliasIdx : c \in {AliasUpper[i], AliasLower[i], AliasMixed[i]}
  THEN AliasUpper[CHOOSE i \in AliasIdx :
                    c \in {AliasUpper[i], AliasLower[i], AliasMixed[i]}]
  ELSE IF \E w \in CasedWords : \E k \in DOMAIN w : w[k] = c
  THEN (CHOOSE w \in CasedWords : \E k \in DOMAIN w : w[k] = c)[2]
  ELSE c

\* str.lower() of one symbol.
LowerSym(c) ==
  IF \E i \in AliasIdx : c \in {AliasUpper[i], AliasLower[i], AliasMixed[i]}
  THEN AliasLower[CHOOSE i \in AliasIdx :
                    c \in {AliasUpper[i], AliasLower[i], AliasMixed[i]}]
  ELSE IF \E w \in CasedWords : \E k \in DOMAIN w : w[k] = c
  THEN (CHOOSE w \in CasedWords : \E k \in DOMAIN w : w[k] = c)[1]
  ELSE c

Upper(s) == [i \in 1..Len(s) |-> UpperSym(s[i])]

Lower(s) == [i \in 1..Len(s) |-> LowerSym(s[i])]

\* s[n:] with n counted in symbols.
DropFirst(s, n) == IF n >= Len(s) THEN <<>> ELSE SubSeq(s, n + 1, Len(s))

\* l[:-i] for 1 <= i.
DropLast(l, i) == IF i >= Len(l) THEN <<>> ELSE SubSeq(l, 1, Len(l) - i)

\* str.split("\\"): always at least one component.
RECURSIVE SplitFrom(_, _, _)
SplitFrom(s, i, cur) ==
  IF i > Len(s) THEN << cur >>
  ELSE IF s[i] = Sep THEN << cur >> \o SplitFrom(s, i + 1, EmptyStr)
  ELSE SplitFrom(s, i + 1, Append(cur, s[i]))

Split(s) == SplitFrom(s, 1, EmptyStr)

\* "\\".join(l)
RECURSIVE Join(_)
Join(l) ==
  IF Len(l) = 0 THEN EmptyStr
  ELSE IF Len(l) = 1 THEN l[1]
  ELSE l[1] \o << Sep >> \o Join(Tail(l))

\* str.lstrip("\\")
RECURSIVE LStripSep(_)
LStripSep(s) ==
  IF Len(s) > 0 /\ s[1] = Sep THEN LStripSep(Tail(s)) ELSE s

\* Python truthiness of an optional string: None and "" are falsy.
Truthy(o) == o # NoneVal /\ o[1] # EmptyStr

\* a or b
PyOr(a, b) == IF Truthy(a) THEN a ELSE b

\* ---------------------------------------------------------- path model

\* REGISTRY_KEYS: alias -> root constant (the winreg.HKEY_* constants, by name).
REGISTRY_KEYS ==
  [ a \in {Str(AliasUpper[i]) : i \in AliasIdx} |->
      LET i == CHOOSE j \in AliasIdx : Str(AliasUpper[j]) = a
      IN  AliasUpper[IF i % 2 = 1 THEN i + 1 ELSE i] ]

\* The value of a call: err is "" or the name of the exception raised.
Ok(v) == [err |-> "", val |-> v]

Raise(e) == [err |-> e, val |-> <<>>]

\* FileNotFoundError and its subclasses (HKeyNotFoundError is one).
IsFileNotFound(e) == e \in {"FileNotFoundError", "HKeyNotFoundError"}

\* RegistryPath.__init__: the computer argument as stored on the instance.
NormComputer(computer) ==
  LET c1 == IF computer # NoneVal /\ Lower(computer[1]) = Str("computer")
            THEN NoneVal ELSE computer
  IN  IF c1 # NoneVal THEN Some(<< Sep, Sep >> \o LStripSep(c1[1])) ELSE c1

\* RegistryPath.__init__: the raw path as stored on the instance
\* ("computer" and the one character after it are cut from the front).
NormRawPath(raw_path) ==
  IF Len(raw_path) > 0 /\ LowerSym(raw_path[1]) = "computer"
  THEN DropFirst(raw_path, 2)
  ELSE raw_path

\* RegistryPath._parse_raw_path: the root constant, or the exception.
ParseRawPath(path_components) ==
  LET first_component == path_components[1]
  IN  IF Upper(first_component) \in DOMAIN REGISTRY_KEYS
      THEN LET key_raw == first_component
           IN  IF key_raw \in DOMAIN REGISTRY_KEYS
               THEN Ok(REGISTRY_KEYS[key_raw])
               ELSE Raise("KeyError")
      ELSE Raise("HKeyNotFoundError")

\* RegistryPath(raw_path, value_name, computer)
Construct(raw_path, value_name, computer) ==
  IF raw_path = EmptyStr THEN Raise("ValueError")
  ELSE LET raw == NormRawPath(raw_path)
           k   == ParseRawPath(Split(raw))
       IN  IF k.err # "" THEN Raise(k.err)
           ELSE Ok([ raw_path   |-> raw,
                     value_name |-> value_name,
                     computer   |-> NormComputer(computer),
                     key        |-> k.val ])

\* RegistryPath._path_split
PathSplit(p) == Split(p.raw_path)

\* RegistryPath.parts
Parts(p) ==
  IF p.value_name # NoneVal
  THEN Append(PathSplit(p), p.value_name[1])
  ELSE PathSplit(p)

\* RegistryPath.subkey
Subkey(p) ==
  IF p.value_name # NoneVal
  THEN Join(SubSeq(Parts(p), 2, Len(Parts(p)) - 1))
  ELSE Join(SubSeq(Parts(p), 2, Len(Parts(p))))

\* RegistryPath.name
Name(p) ==
  IF p.value_name = NoneVal THEN Parts(p)[Len(Parts(p))] ELSE p.value_name[1]

\* RegistryPath.__repr__
Repr(p) ==
  << "<RegistryPath: " >> \o p.raw_path
  \o (IF p.value_name = NoneVal THEN <<>> ELSE << " -> " >> \o p.value_name[1])
  \o (IF p.computer = NoneVal THEN <<>> ELSE << " On " >> \o p.computer[1])
  \o << ">" >>

\* RegistryPath.__hash__: hash(repr(self)); str's hash is taken to tell any
\* two different strings of the model apart.
Hash(p) == Repr(p)

\* RegistryPath.__eq__
Eq(p, q) == Hash(p) = Hash(q)

\* RegistryPath.parents with the nearest ancestor left out.
ParentsCallsFromSecond(p) ==
  [ i \in 1..(Len(Parts(p)) - 2) |->
      Construct(Join(DropLast(Parts(p), i + 1)), NoneVal, NoneVal) ]

\* RegistryPath.parents: the calls RegistryPath("\\".join(self.parts[:-i])),
\* i = 1 .. len(parts) - 1, in order.
ParentsCalls(p) ==
  [ i \in 1..(Len(Parts(p)) - 1) |->
      Construct(Join(DropLast(Parts(p), i)), NoneVal, NoneVal) ]

\* RegistryPath.parents
Parents(p) ==
  LET calls == ParentsCalls(p)
  IN  IF \E i \in DOMAIN calls : calls[i].err # ""
      THEN Raise(calls[CHOOSE i \in DOMAIN calls :
                         /\ calls[i].err # ""
                         /\ \A j \in 1..(i - 1) : calls[j].err = ""].err)
      ELSE Ok([i \in DOMAIN calls |-> calls[i].val])

\* RegistryPath.parent: self.parents[0]
Parent(p) ==
  LET ps == Parents(p)
  IN  IF ps.err # "" THEN ps
      ELSE IF Len(ps.val) = 0 THEN Raise("IndexError")
      ELSE Ok(ps.val[1])

\* RegistryPath.__truediv__
Truediv(p, other) ==
  IF p.value_name # NoneVal THEN Raise("ValueError")
  ELSE Construct(Join(Parts(p)) \o << Sep >> \o other, NoneVal, p.computer)

\* RegistryPath.with_value_name
WithValueName(p, value_name) == Construct(p.raw_path, value_name, p.computer)

\* functools.lru_cache on parts, parents, parent, name and subkey: one cache
\* for each of the five functions, shared by all instances.  An entry is kept
\* under its argument, self, which is looked up by __hash__ and __eq__; by is
\* the instance the value was computed for.  The caches hold 128 entries
\* each, which are more than the instances made here: no entry is dropped.
\* Parts, Parents, Parent, Name and Subkey above are the values the functions
\* compute; a read returns them as long as no two instances that differ have
\* the same repr, as is the case of the paths in Spec, SpecWrite and SpecPath.
NoCache ==
  [parts |-> <<>>, parents |-> <<>>, parent |-> <<>>, name |-> <<>>,
   subkey |-> <<>>]

Hit(entries, p) == \E i \in DOMAIN entries : Eq(entries[i].self, p)

Cached(entries, p) ==
  entries[CHOOSE i \in DOMAIN entries : Eq(entries[i].self, p)]

Stored(entries, p, by, val) ==
  Append(entries, [self |-> p, by |-> by, val |-> val])

\* The outcome of reading a property: the caches after it and the value.
ReadOutcome(c, e, val) == [cache |-> c, err |-> e, val |-> val]

\* self.parts, read by instance by.
CachedParts(c, p, by) ==
  IF Hit(c.parts, p) THEN ReadOutcome(c, "", Cached(c.parts, p).val)
  ELSE ReadOutcome([c EXCEPT !.parts = Stored(@, p, by, Parts(p))], "", Parts(p))

\* self.parents
CachedParents(c, p, by) ==
  LET Made(r, calls) ==
        IF \E i \in DOMAIN calls : calls[i].err # ""
        THEN ReadOutcome(r.cache, "HKeyNotFoundError", <<>>)
        ELSE ReadOutcome([r.cache EXCEPT !.parents =
                     Stored(@, p, by, [i \in DOMAIN calls |-> calls[i].val])],
                  "", [i \in DOMAIN calls |-> calls[i].val])
      Looped(r) ==
        Made(r, [i \in 1..(Len(r.val) - 1) |->
                   Construct(Join(DropLast(r.val, i)), NoneVal, NoneVal)])
  IN  IF Hit(c.parents, p) THEN ReadOutcome(c, "", Cached(c.parents, p).val)
      ELSE Looped(CachedParts(c, p, by))

\* self.parent
CachedParent(c, p, by) ==
  LET First(r) ==
        IF r.err # "" THEN ReadOutcome(r.cache, r.err, p)
        ELSE IF Len(r.val) = 0 THEN ReadOutcome(r.cache, "IndexError", p)
        ELSE ReadOutcome([r.cache EXCEPT !.parent = Stored(@, p, by, r.val[1])],
                  "", r.val[1])
  IN  IF Hit(c.parent, p) THEN ReadOutcome(c, "", Cached(c.parent, p).val)
      ELSE First(CachedParents(c, p, by))

\* self.name
CachedName(c, p, by) ==
  LET Last(r) ==
        ReadOutcome([r.cache EXCEPT !.name = Stored(@, p, by, r.val[Len(r.val)])],
             "", r.val[Len(r.val)])
  IN  IF Hit(c.name, p) THEN ReadOutcome(c, "", Cached(c.name, p).val)
      ELSE IF p.value_name = NoneVal THEN Last(CachedParts(c, p, by))
      ELSE ReadOutcome([c EXCEPT !.name = Stored(@, p, by, p.value_name[1])],
                "", p.value_name[1])

\* self.subkey
CachedSubkey(c, p, by) ==
  LET Joined(r, last) ==
        ReadOutcome([r.cache EXCEPT !.subkey =
                Stored(@, p, by, Join(SubSeq(r.val, 2, Len(r.val) - last)))],
             "", Join(SubSeq(r.val, 2, Len(r.val) - last)))
  IN  IF Hit(c.subkey, p) THEN ReadOutcome(c, "", Cached(c.subkey, p).val)
      ELSE IF p.value_name # NoneVal THEN Joined(CachedParts(c, p, by), 1)
      ELSE Joined(CachedParts(c, p, by), 0)

\* ------------------------------------------------------------ registry
\* The registry the winreg calls act on: for each computer the keys of the
\* HKEY_LOCAL_MACHINE hive (a key is the sequence of its names from the
\* root, <<>> the root itself) and the values (key, name, type).  Children
\* are enumerated in the order of KeyNameOrder and ValueNameOrder.

LocalHost == NoneVal

RemoteHost == Some(<< Sep, Sep, "h1" >>)

Hosts == {LocalHost, RemoteHost}

KeyNameOrder == << Str("a"), Str("b") >>

ValueNameOrder == << Str("v") >>

SeqRange(q) == {q[i] : i \in DOMAIN q}

\* The key a sub_key string names below a key.
KeyPathOf(sub_key) == IF sub_key = EmptyStr THEN <<>> ELSE Split(sub_key)

HasKey(st, host, key) == key \in st[host].keys

HasValue(st, host, key, name) ==
  \E x \in st[host].vals : x.key = key /\ x.name = name

ChildKeys(st, host, key) ==
  SelectSeq(KeyNameOrder, LAMBDA n : Append(key, n) \in st[host].keys)

ChildValues(st, host, key) ==
  SelectSeq(ValueNameOrder, LAMBDA n : HasValue(st, host, key, n))

IsPrefix(a, b) == Len(a) <= Len(b) /\ SubSeq(b, 1, Len(a)) = a

\* The state of a running call: the registry, the handles now open (the
\* innermost last), the winreg and method calls made so far, the exception
\* in flight ("" for none) and the value of the last call.
\* A logged call: what was called, on which computer and key (the handle's),
\* with which name and index, and whether it returned (ok) or raised.
Event(ev, host, key, name, index, ok) ==
  [ev |-> ev, host |-> host, key |-> key, name |-> name, index |-> index,
   ok |-> ok]

Logged(X, e) == [X EXCEPT !.log = Append(@, e)]

Failed(X, e) == [X EXCEPT !.err = e]

Returned(X, v) == [X EXCEPT !.ret = v]

Top(X) == X.open[Len(X.open)]

Pushed(X, h) == [X EXCEPT !.open = Append(@, h)]

\* winreg.ConnectRegistry(computer_name, key)
ConnectRegistry(X, computer, key) ==
  Pushed(Logged(X, Event("ConnectRegistry", computer, <<>>, EmptyStr, 0, TRUE)),
         [kind |-> "conn", host |-> computer, hive |-> key, key |-> <<>>,
          access |-> {}])

\* winreg.OpenKey(key, sub_key, access=access)
OpenKey(X, h, sub_key, access) ==
  LET k == h.key \o KeyPathOf(sub_key)
      L(ok) == Logged(X, Event("OpenKey", h.host, k, EmptyStr, 0, ok))
  IN  IF HasKey(X.st, h.host, k)
      THEN Pushed(L(TRUE), [kind |-> "key", host |-> h.host, hive |-> h.hive,
                            key |-> k, access |-> access])
      ELSE Failed(L(FALSE), "FileNotFoundError")

\* PyHKEY.__exit__ / Close of the innermost open handle.
CloseHandle(X) ==
  [Logged(X, Event("CloseKey", Top(X).host, Top(X).key, EmptyStr, 0, TRUE))
     EXCEPT !.open = SubSeq(X.open, 1, Len(X.open) - 1)]

\* winreg.QueryValueEx(key, value_name): the value's type.
QueryValueEx(X, h, name) ==
  LET L(ok) == Logged(X, Event("QueryValueEx", h.host, h.key, name, 0, ok))
  IN  IF ~HasKey(X.st, h.host, h.key) THEN Failed(L(FALSE), "OSError")
      ELSE IF ~HasValue(X.st, h.host, h.key, name)
      THEN Failed(L(FALSE), "FileNotFoundError")
      ELSE Returned(L(TRUE), (CHOOSE x \in X.st[h.host].vals :
                                x.key = h.key /\ x.name = name).typ)

\* winreg.QueryInfoKey(key): (number of sub keys, number of values).
QueryInfoKey(X, h) ==
  LET L(ok) == Logged(X, Event("QueryInfoKey", h.host, h.key, EmptyStr, 0, ok))
  IN  IF ~HasKey(X.st, h.host, h.key) THEN Failed(L(FALSE), "OSError")
      ELSE Returned(L(TRUE), << Len(ChildKeys(X.st, h.host, h.key)),
                                Len(ChildValues(X.st, h.host, h.key)) >>)

\* winreg.EnumKey(key, index): the index-th sub key the key has now.
EnumKey(X, h, index) ==
  LET L(ok) == Logged(X, Event("EnumKey", h.host, h.key, EmptyStr, index, ok))
      c == ChildKeys(X.st, h.host, h.key)
  IN  IF ~HasKey(X.st, h.host, h.key) \/ index >= Len(c)
      THEN Failed(L(FALSE), "OSError")
      ELSE Returned(L(TRUE), c[index + 1])

\* winreg.EnumValue(key, index): the name of the index-th value the key has now.
EnumValue(X, h, index) ==
  LET L(ok) == Logged(X, Event("EnumValue", h.host, h.key, EmptyStr, index, ok))
      c == ChildValues(X.st, h.host, h.key)
  IN  IF ~HasKey(X.st, h.host, h.key) \/ index >= Len(c)
      THEN Failed(L(FALSE), "OSError")
      ELSE Returned(L(TRUE), c[index + 1])

\* The registry with a key, and the keys on the way to it from base, added.
WithKey(st, host, base, k) ==
  [st EXCEPT ![host].keys = @ \cup {SubSeq(k, 1, n) : n \in Len(base)..Len(k)}]

\* The registry with a key, and its values, removed.
WithoutKey(st, host, k) ==
  [st EXCEPT ![host] = [keys |-> @.keys \ {k},
                        vals |-> {x \in @.vals : x.key # k}]]

\* The registry with a value removed.
WithoutValue(st, host, k, name) ==
  [st EXCEPT ![host].vals = {x \in @ : ~(x.key = k /\ x.name = name)}]

\* winreg.CreateKey(key, sub_key): creates (or opens) the key and the keys
\* on the way to it; the new handle is opened.
CreateKey(X, h, sub_key) ==
  LET k == h.key \o KeyPathOf(sub_key)
      L(ok) == Logged(X, Event("CreateKey", h.host, h.key, sub_key, 0, ok))
  IN  IF ~HasKey(X.st, h.host, h.key) THEN Failed(L(FALSE), "OSError")
      ELSE IF "w" \notin h.access /\ ~HasKey(X.st, h.host, k)
      THEN Failed(L(FALSE), "PermissionError")
      ELSE Pushed([L(TRUE) EXCEPT !.st = WithKey(X.st, h.host, h.key, k)],
                  [kind |-> "key", host |-> h.host, hive |-> h.hive,
                   key |-> k, access |-> {"r", "w"}])

\* winreg.DeleteKey(key, sub_key): the key must have no sub keys; its
\* values go with it.
DeleteKey(X, h, sub_key) ==
  LET k == h.key \o KeyPathOf(sub_key)
      L(ok) == Logged(X, Event("DeleteKey", h.host, h.key, sub_key, 0, ok))
  IN  IF ~HasKey(X.st, h.host, h.key) THEN Failed(L(FALSE), "OSError")
      ELSE IF ~HasKey(X.st, h.host, k) THEN Failed(L(FALSE), "FileNotFoundError")
      ELSE IF Len(ChildKeys(X.st, h.host, k)) > 0 \/ k = <<>>
      THEN Failed(L(FALSE), "PermissionError")
      ELSE [L(TRUE) EXCEPT !.st = WithoutKey(X.st, h.host, k)]

\* winreg.DeleteValue(key, value)
DeleteValue(X, h, value) ==
  LET L(ok) == Logged(X, Event("DeleteValue", h.host, h.key, value, 0, ok))
  IN  IF ~HasKey(X.st, h.host, h.key) THEN Failed(L(FALSE), "OSError")
      ELSE IF ~HasValue(X.st, h.host, h.key, value)
      THEN Failed(L(FALSE), "FileNotFoundError")
      ELSE IF "w" \notin h.access THEN Failed(L(FALSE), "PermissionError")
      ELSE [L(TRUE) EXCEPT !.st = WithoutValue(X.st, h.host, h.key, value)]

\* winreg.SetValueEx(key, value_name, 0, typ, value): the data is not kept.
SetValueEx(X, h, name, typ) ==
  LET L(ok) == Logged(X, Event("SetValueEx", h.host, h.key, name, 0, ok))
      v == [key |-> h.key, name |-> name, typ |-> typ]
  IN  IF ~HasKey(X.st, h.host, h.key) THEN Failed(L(FALSE), "OSError")
      ELSE IF "w" \notin h.access THEN Failed(L(FALSE), "PermissionError")
      ELSE [L(TRUE) EXCEPT
              !.st = [WithoutValue(X.st, h.host, h.key, name)
                        EXCEPT ![h.host].vals = @ \cup {v}]]

\* ------------------------------------------------------------- methods
\* A method takes the state X it is called in and gives the state it ends in.
\* "LET Then(h) == ... IN Then(f(X))" reads: run f, call its outcome h, go on.

\* The key a path's subkey names, from the root.
KeyOf(p) == KeyPathOf(Subkey(p))

\* _get_subkey_handle without the with statement around ConnectRegistry: the
\* connection stays open when OpenKey raises.
GetSubkeyHandleLeak(X, p, reads, writes) ==
  LET access == (IF reads THEN {"r"} ELSE {}) \cup (IF writes THEN {"w"} ELSE {})
      Connected(c) == OpenKey(c, Top(c), Subkey(p), access)
  IN  Connected(ConnectRegistry(X, p.computer, p.key))

\* RegistryPath._get_subkey_handle: entering the context.  ConnectRegistry's
\* handle is closed by its with statement when OpenKey raises.
GetSubkeyHandle(X, p, reads, writes) ==
  LET access == (IF reads THEN {"r"} ELSE {}) \cup (IF writes THEN {"w"} ELSE {})
      Opened(o) == IF o.err # "" THEN CloseHandle(o) ELSE o
      Connected(c) == Opened(OpenKey(c, Top(c), Subkey(p), access))
  IN  Connected(ConnectRegistry(X, p.computer, p.key))

\* RegistryPath._get_subkey_handle: leaving the context, normally or by an
\* exception: the key handle is closed, then the connection.
ExitSubkeyHandle(X) == CloseHandle(CloseHandle(X))

\* RegistryPath.exists
Exists(X, p) ==
  LET Caught(q, v) ==
        IF q.err = "" THEN Returned(q, v)
        ELSE IF IsFileNotFound(q.err) THEN Returned(Failed(q, ""), FALSE)
        ELSE q
      Body(h) ==
        IF h.err # "" THEN h
        ELSE IF p.value_name = NoneVal THEN ExitSubkeyHandle(h)
        ELSE ExitSubkeyHandle(QueryValueEx(h, Top(h), p.value_name[1]))
  IN  Caught(Body(GetSubkeyHandle(X, p, TRUE, FALSE)), TRUE)

\* RegistryPath.is_dir
IsDir(X, p) ==
  IF p.value_name = NoneVal THEN Exists(X, p) ELSE Returned(X, FALSE)

\* RegistryPath.is_file
IsFile(X, p, value_name) ==
  LET vname == PyOr(value_name, p.value_name)
      Built(w) == IF w.err # "" THEN Failed(X, w.err) ELSE Exists(X, w.val)
  IN  IF vname = NoneVal THEN Returned(X, FALSE)
      ELSE Built(WithValueName(p, value_name))

\* A call of a method, as it appears in the log.
CallEvent(method, p, flags) ==
  Event(method, p.computer, KeyOf(p), Str(flags), 0, TRUE)

\* with self.parent._get_subkey_handle(writes=True) as handle:
\*     with winreg.CreateKey(handle, self.name): pass
MkdirCreate(X, p) ==
  LET Created(c) ==
        IF c.err # "" THEN ExitSubkeyHandle(c)
        ELSE ExitSubkeyHandle(CloseHandle(c))
      Entered(h) ==
        IF h.err # "" THEN h ELSE Created(CreateKey(h, Top(h), Name(p)))
      Got(par) ==
        IF par.err # "" THEN Failed(X, par.err)
        ELSE Entered(GetSubkeyHandle(X, par.val, TRUE, TRUE))
  IN  Got(Parent(p))

\* RegistryPath.mkdir
RECURSIVE Mkdir(_, _, _, _)
RECURSIVE MkdirParents(_, _, _)
Mkdir(X, p, parents, exist_ok) ==
  LET Made(a) == IF a.err # "" THEN a ELSE MkdirCreate(a, p)
      Listed(d, ps) ==
        IF ps.err # "" THEN Failed(d, ps.err)
        ELSE MkdirParents(d, ps.val, Len(ps.val))
      Checked(d) ==
        IF d.err # "" THEN d
        ELSE IF d.ret THEN (IF exist_ok THEN d ELSE Failed(d, "FileExistsError"))
        ELSE IF parents THEN Made(Listed(d, Parents(p)))
        ELSE Made(d)
      Called(c) ==
        IF p.value_name # NoneVal THEN Failed(c, "ValueError")
        ELSE Checked(IsDir(c, p))
  IN  Called(Logged(X, CallEvent("mkdir", p,
                IF exist_ok THEN "exist_ok=True" ELSE "exist_ok=False")))

\* for p in reversed(self.parents): p.mkdir(exist_ok=True)
MkdirParents(X, ps, i) ==
  LET Done(m) == IF m.err # "" THEN m ELSE MkdirParents(m, ps, i - 1)
  IN  IF i = 0 THEN X ELSE Done(Mkdir(X, ps[i], FALSE, TRUE))

\* RegistryPath.iterdir up to the first loop: the generator's first resumption.
\* The value is (num_sub_keys, num_values); the handles stay open.
IterdirStart(X, p) ==
  LET Queried(q) == IF q.err # "" THEN ExitSubkeyHandle(q) ELSE q
      Entered(h) == IF h.err # "" THEN h ELSE Queried(QueryInfoKey(h, Top(h)))
      Checked(d) ==
        IF d.err # "" THEN d
        ELSE IF ~d.ret THEN Failed(d, "NotADirectoryError")
        ELSE Entered(GetSubkeyHandle(d, p, TRUE, FALSE))
  IN  Checked(IsDir(X, p))

\* iterdir with its two loops exchanged: the values, then the sub keys.
IterdirNextValuesFirst(X, p, pos, num_sub_keys, num_values) ==
  LET Yield(e, c) ==
        IF c.err # "" THEN ExitSubkeyHandle(Failed(e, c.err))
        ELSE Returned(e, << c.val >>)
      SubKey(e) ==
        IF e.err # "" THEN ExitSubkeyHandle(e) ELSE Yield(e, Truediv(p, e.ret))
      Value(e) ==
        IF e.err # "" THEN ExitSubkeyHandle(e)
        ELSE Yield(e, WithValueName(p, Some(e.ret)))
  IN  IF pos < num_values THEN Value(EnumValue(X, Top(X), pos))
      ELSE IF pos < num_values + num_sub_keys
      THEN SubKey(EnumKey(X, Top(X), pos - num_values))
      ELSE Returned(ExitSubkeyHandle(X), <<>>)

\* iterdir enumerating the sub keys from the last index down.
IterdirNextDescending(X, p, pos, num_sub_keys, num_values) ==
  LET Yield(e, c) ==
        IF c.err # "" THEN ExitSubkeyHandle(Failed(e, c.err))
        ELSE Returned(e, << c.val >>)
      SubKey(e) ==
        IF e.err # "" THEN ExitSubkeyHandle(e) ELSE Yield(e, Truediv(p, e.ret))
      Value(e) ==
        IF e.err # "" THEN ExitSubkeyHandle(e)
        ELSE Yield(e, WithValueName(p, Some(e.ret)))
  IN  IF pos < num_sub_keys
      THEN SubKey(EnumKey(X, Top(X), num_sub_keys - 1 - pos))
      ELSE IF pos < num_sub_keys + num_values
      THEN Value(EnumValue(X, Top(X), pos - num_sub_keys))
      ELSE Returned(ExitSubkeyHandle(X), <<>>)

\* RegistryPath.iterdir, the two loops: the generator resumed after it has
\* yielded pos items.  The value is <<item>>, or <<>> when the generator is
\* exhausted (StopIteration); the handles are closed when it ends or raises.
IterdirNext(X, p, pos, num_sub_keys, num_values) ==
  LET Yield(e, c) ==
        IF c.err # "" THEN ExitSubkeyHandle(Failed(e, c.err))
        ELSE Returned(e, << c.val >>)
      SubKey(e) ==
        IF e.err # "" THEN ExitSubkeyHandle(e) ELSE Yield(e, Truediv(p, e.ret))
      Value(e) ==
        IF e.err # "" THEN ExitSubkeyHandle(e)
        ELSE Yield(e, WithValueName(p, Some(e.ret)))
  IN  IF pos < num_sub_keys THEN SubKey(EnumKey(X, Top(X), pos))
      ELSE IF pos < num_sub_keys + num_values
      THEN Value(EnumValue(X, Top(X), pos - num_sub_keys))
      ELSE Returned(ExitSubkeyHandle(X), <<>>)

\* A suspended iterdir generator that is dropped (the temporary of
\* next(self.iterdir()), the iterator of a for loop left by an exception) is
\* finalized: GeneratorExit is raised at its yield and its with statements
\* close the handles.
GeneratorClose(X) == ExitSubkeyHandle(X)

\* list(p.iterdir()): the value is the sequence of the items yielded.
RECURSIVE IterdirRest(_, _, _, _, _, _)
IterdirRest(X, p, pos, num_sub_keys, num_values, items) ==
  LET Resumed(n) ==
        IF n.err # "" \/ Len(n.ret) = 0 THEN Returned(n, items)
        ELSE IterdirRest(n, p, pos + 1, num_sub_keys, num_values,
                         Append(items, n.ret[1]))
  IN  Resumed(IterdirNext(X, p, pos, num_sub_keys, num_values))

Iterdir(X, p) ==
  LET Started(s) ==
        IF s.err # "" THEN Returned(s, <<>>)
        ELSE IterdirRest(s, p, 0, s.ret[1], s.ret[2], <<>>)
  IN  Started(IterdirStart(X, p))

\* RegistryPath.unlink
Unlink(X, p, missing_ok) ==
  LET Deleted(d) ==
        IF IsFileNotFound(d.err) /\ missing_ok
        THEN ExitSubkeyHandle(Failed(d, ""))
        ELSE ExitSubkeyHandle(d)
      Entered(h) ==
        IF h.err # "" THEN h
        ELSE Deleted(DeleteValue(h, Top(h), p.value_name[1]))
      Called(c) ==
        IF p.value_name = NoneVal THEN Failed(c, "FileNotFoundError")
        ELSE Entered(GetSubkeyHandle(c, p, TRUE, TRUE))
  IN  Called(Logged(X, CallEvent("unlink", p, "")))

\* with self.parent._get_subkey_handle(writes=True) as handle:
\*     winreg.DeleteKey(handle, self.name)
RmdirDelete(X, p) ==
  LET Entered(h) ==
        IF h.err # "" THEN h
        ELSE ExitSubkeyHandle(DeleteKey(h, Top(h), Name(p)))
      Got(par) ==
        IF par.err # "" THEN Failed(X, par.err)
        ELSE Entered(GetSubkeyHandle(X, par.val, TRUE, TRUE))
  IN  Got(Parent(p))

\* RegistryPath.rmdir
Rmdir(X, p) ==
  LET Resumed(n) ==
        IF n.err # "" THEN n
        ELSE IF Len(n.ret) > 0 THEN Failed(GeneratorClose(n), "OSError")
        ELSE RmdirDelete(n, p)
      Started(s) ==
        IF s.err # "" THEN s
        ELSE Resumed(IterdirNext(s, p, 0, s.ret[1], s.ret[2]))
  IN  Started(IterdirStart(Logged(X, CallEvent("rmdir", p, "")), p))

\* RegistryPath.rmtree
RECURSIVE Rmtree(_, _)
RECURSIVE RmtreeLoop(_, _, _, _, _)
Rmtree(X, p) ==
  LET Started(s) ==
        IF s.err # "" THEN s ELSE RmtreeLoop(s, p, 0, s.ret[1], s.ret[2])
  IN  Started(IterdirStart(Logged(X, CallEvent("rmtree", p, "")), p))

\* for child in self.iterdir(): ...; self.rmdir()
RmtreeLoop(X, p, pos, num_sub_keys, num_values) ==
  LET Removed(b) ==
        IF b.err # "" THEN GeneratorClose(b)
        ELSE RmtreeLoop(b, p, pos + 1, num_sub_keys, num_values)
      Checked(d, child) ==
        IF d.err # "" THEN Removed(d)
        ELSE IF d.ret THEN Removed(Rmtree(d, child))
        ELSE Removed(Unlink(d, child, FALSE))
      Resumed(n) ==
        IF n.err # "" THEN n
        ELSE IF Len(n.ret) = 0 THEN Rmdir(n, p)
        ELSE Checked(IsDir(n, n.ret[1]), n.ret[1])
  IN  Resumed(IterdirNext(X, p, pos, num_sub_keys, num_values))

\* RegistryPath.read_raw: the value is the type of the value read.
ReadRaw(X, p, value_name) ==
  LET vname == PyOr(value_name, p.value_name)
      Entered(h) ==
        IF h.err # "" THEN h
        ELSE ExitSubkeyHandle(QueryValueEx(h, Top(h), vname[1]))
  IN  IF vname = NoneVal THEN Failed(X, "ValueError")
      ELSE Entered(GetSubkeyHandle(X, p, TRUE, FALSE))

\* RegistryPath.write_raw
WriteRaw(X, p, typ, value_name) ==
  LET vname == PyOr(value_name, p.value_name)
      Entered(h) ==
        IF h.err # "" THEN h
        ELSE ExitSubkeyHandle(SetValueEx(h, Top(h), vname[1], typ))
  IN  IF vname = NoneVal THEN Failed(X, "ValueError")
      ELSE Entered(GetSubkeyHandle(X, p, TRUE, TRUE))

\* The values written.  A value is its Python type (kind) with, for a str,
\* its text and, for an int, its sign and its magnitude as three digits of
\* base 65536, the most significant first.  True is the int 1 of type bool,
\* a subclass of int.
Value(kind, text, neg, limbs) ==
  [kind |-> kind, text |-> text, neg |-> neg, limbs |-> limbs]

StrValue(text) == Value("str", text, FALSE, << 0, 0, 0 >>)

IntValue(neg, limbs) == Value("int", EmptyStr, neg, limbs)

OtherValue(kind) == Value(kind, EmptyStr, FALSE, << 0, 0, 0 >>)

TrueValue == Value("bool", EmptyStr, FALSE, << 0, 0, 1 >>)

\* 0xFFFFFFFF
MaxDword == << 0, 65535, 65535 >>

\* a > b for two magnitudes.
LimbsGreater(a, b) ==
  \E i \in DOMAIN a : a[i] > b[i] /\ \A j \in 1..(i - 1) : a[j] = b[j]

\* isinstance(value, int)
IsInt(value) == value.kind \in {"int", "bool"}

\* str.count("%")
RECURSIVE CountPercent(_)
CountPercent(text) ==
  IF Len(text) = 0 THEN 0
  ELSE (IF Head(text) = "%" THEN 1 ELSE 0) + CountPercent(Tail(text))

\* RegistryPath.write, the branch "if guess_type": the type guessed from the
\* value (typ stays REG_BINARY when no isinstance matches), or ValueError.
GuessTypeAbove(value) ==
  IF value.kind = "str"
  THEN LET percent_count == CountPercent(value.text)
       IN  IF percent_count > 0 /\ percent_count % 2 = 0
           THEN Ok("REG_EXPAND_SZ") ELSE Ok("REG_SZ")
  ELSE IF value.kind = "list" THEN Ok("REG_MULTI_SZ")
  ELSE IF value.kind = "NoneType" THEN Ok("REG_NONE")
  ELSE IF IsInt(value)
  THEN IF value.neg THEN Raise("ValueError")
       ELSE IF LimbsGreater(value.limbs, MaxDword) \/ value.limbs = MaxDword
       THEN Ok("REG_QWORD")
       ELSE Ok("REG_DWORD")
  ELSE Ok("REG_BINARY")

GuessType(value) ==
  IF value.kind = "str"
  THEN LET percent_count == CountPercent(value.text)
       IN  IF percent_count > 0 /\ percent_count % 2 = 0
           THEN Ok("REG_EXPAND_SZ") ELSE Ok("REG_SZ")
  ELSE IF value.kind = "list" THEN Ok("REG_MULTI_SZ")
  ELSE IF value.kind = "NoneType" THEN Ok("REG_NONE")
  ELSE IF IsInt(value)
  THEN IF value.neg THEN Raise("ValueError")
       ELSE IF LimbsGreater(value.limbs, MaxDword) THEN Ok("REG_QWORD")
       ELSE Ok("REG_DWORD")
  ELSE Ok("REG_BINARY")

\* RegistryPath.registry_type: the value is the type.
RegistryType(X, p) ==
  LET Entered(h) ==
        IF h.err # "" THEN h
        ELSE ExitSubkeyHandle(QueryValueEx(h, Top(h), p.value_name[1]))
  IN  IF p.value_name = NoneVal THEN Failed(X, "ValueError")
      ELSE Entered(GetSubkeyHandle(X, p, TRUE, FALSE))

\* self.write_raw(value, typ, vname), as it appears in the log.
WriteRawCalled(X, p, typ, vname) ==
  WriteRaw(Logged(X, CallEvent("write_raw", p, typ)), p, typ, vname)

\* RegistryPath.write that never reads the type the value has.
WriteNeverReads(X, p, value, value_name, read_type) ==
  LET vname == PyOr(value_name, p.value_name)
      Guessed(g) ==
        IF g.err # "" THEN Failed(X, g.err)
        ELSE WriteRawCalled(X, p, g.val, vname)
  IN  IF vname = NoneVal THEN Failed(X, "ValueError")
      ELSE Guessed(GuessType(value))

\* RegistryPath.write
Write(X, p, value, value_name, read_type) ==
  LET vname == PyOr(value_name, p.value_name)
      Guessed(q, g) ==
        IF g.err # "" THEN Failed(q, g.err)
        ELSE WriteRawCalled(q, p, g.val, vname)
      Read(t) ==
        IF t.err = "" THEN WriteRawCalled(t, p, t.ret, vname)
        ELSE IF IsFileNotFound(t.err) THEN Guessed(Failed(t, ""), GuessType(value))
        ELSE t
      Built(w) ==
        IF w.err # "" THEN Failed(X, w.err) ELSE Read(RegistryType(X, w.val))
  IN  IF vname = NoneVal THEN Failed(X, "ValueError")
      ELSE IF read_type THEN Built(WithValueName(p, vname))
      ELSE Guessed(X, GuessType(value))

\* ------------------------------------------------------- state machine

\* Keys are at most MaxDepth names below the root; the registries hold at
\* most MaxNodes keys and values together.
MaxDepth == 2

MaxNodes == 3

KeyNames == SeqRange(KeyNameOrder)

ValueNames == SeqRange(ValueNameOrder)

KeyPaths == UNION {[1..n -> KeyNames] : n \in 0..MaxDepth}

\* The value_name and computer arguments the callers pass.
ValueNameArgs == {NoneVal} \cup {Some(n) : n \in ValueNames}

ComputerArgs == {NoneVal, Some(Str("h1"))}

\* The types values are written with.
ValueTypes == {"REG_SZ"}

\* The paths the methods are called on: HKLM\..., on either computer.
OpPaths ==
  { Construct(Join(<< Str("HKLM") >> \o k), vn, c).val :
      k \in KeyPaths, vn \in ValueNameArgs, c \in ComputerArgs }

NoPath == Construct(Str("HKLM"), NoneVal, NoneVal).val

\* The values the callers write.
WriteValues ==
  {StrValue(t) : t \in {EmptyStr, Str("hello"), << "%", "hello" >>,
                        << "%", "hello", "%" >>, << "%", "a", "%", "b", "%" >>,
                        << "%", "a", "%", "%", "b", "%" >>}}
  \cup {IntValue(FALSE, l) : l \in {<< 0, 0, 0 >>, << 0, 0, 1 >>, MaxDword,
                                    << 1, 0, 0 >>, << 255, 65535, 65535 >>}}
  \cup {IntValue(TRUE, l) : l \in {<< 0, 0, 1 >>, << 1, 0, 0 >>}}
  \cup {OtherValue(k) : k \in {"list", "NoneType", "bytes", "float"}}
  \cup {TrueValue}

NoOp ==
  [name |-> "none", p |-> NoPath, value_name |-> NoneVal,
   parents |-> FALSE, exist_ok |-> FALSE, missing_ok |-> FALSE,
   value |-> OtherValue("NoneType"), read_type |-> FALSE]

\* What a call gives its caller: a printable value and, for a call that
\* lists, the items listed.
NoRet == [value |-> "None", items |-> <<>>]

\* The value of the call of a method that ended in X: a bool for exists and
\* is_file, the items yielded for iterdir, the type read for read_raw.
Shown(method, X) ==
  IF method = "iterdir" THEN [NoRet EXCEPT !.items = X.ret]
  ELSE IF X.err # "" THEN NoRet
  ELSE IF method \in {"exists", "is_file"}
  THEN [NoRet EXCEPT !.value = IF X.ret THEN "True" ELSE "False"]
  ELSE IF method = "read_raw" THEN [NoRet EXCEPT !.value = X.ret]
  ELSE NoRet

EmptyRegistry == [h \in Hosts |-> [keys |-> {<<>>}, vals |-> {}]]

NodeCount(st) ==
  LET n(h) == Cardinality(st[h].keys) - 1 + Cardinality(st[h].vals)
  IN  n(LocalHost) + n(RemoteHost)

VARIABLES
  store,    \* the registries, by computer
  handles,  \* the handles left open by the calls made so far
  pc,       \* "idle", or "done" when a call has ended and not yet been read
  op,       \* the call that has ended: method, path and arguments
  pre,      \* the registries when that call began
  log,      \* the winreg and method calls it made, in order
  err,      \* the exception it raised, "" for none
  ret,      \* its value
  trail,    \* path model: an instance, and the instances derived from it in turn
  cache     \* path model: the functools.lru_cache of each derived property

vars == << store, handles, pc, op, pre, log, err, ret, trail, cache >>

regvars == << store, handles, pc, op, pre, log, err, ret, cache >>

Init ==
  /\ store = EmptyRegistry
  /\ handles = <<>>
  /\ pc = "idle"
  /\ op = NoOp
  /\ pre = EmptyRegistry
  /\ log = <<>>
  /\ err = ""
  /\ ret = NoRet
  /\ trail = <<>>
  /\ cache = NoCache

\* Another program creates a key.
EnvCreateKey ==
  /\ pc = "idle"
  /\ NodeCount(store) < MaxNodes
  /\ \E h \in Hosts, k \in KeyPaths :
       /\ k \notin store[h].keys
       /\ DropLast(k, 1) \in store[h].keys
       /\ store' = [store EXCEPT ![h].keys = @ \cup {k}]
  /\ UNCHANGED << handles, pc, op, pre, log, err, ret, trail, cache >>

\* Another program sets a value.
EnvSetValue ==
  /\ pc = "idle"
  /\ NodeCount(store) < MaxNodes
  /\ \E h \in Hosts, k \in KeyPaths, n \in ValueNames, t \in ValueTypes :
       /\ k \in store[h].keys
       /\ ~HasValue(store, h, k, n)
       /\ store' = [store EXCEPT ![h].vals =
                      @ \cup {[key |-> k, name |-> n, typ |-> t]}]
  /\ UNCHANGED << handles, pc, op, pre, log, err, ret, trail, cache >>

\* The state a call starts in.
Start == [st |-> store, open |-> handles, log |-> <<>>, err |-> "", ret |-> <<>>]

\* A call has run to its end: X is the state it ended in.
Ended(o, X) ==
  /\ pc = "idle"
  /\ NodeCount(X.st) <= MaxNodes
  /\ pc' = "done"
  /\ op' = o
  /\ pre' = store
  /\ store' = X.st
  /\ handles' = X.open
  /\ log' = X.log
  /\ err' = X.err
  /\ ret' = Shown(o.name, X)
  /\ UNCHANGED << trail, cache >>

CallExists ==
  \E p \in OpPaths :
    Ended([NoOp EXCEPT !.name = "exists", !.p = p],
          Exists(Start, p))

CallIsFile ==
  \E p \in OpPaths, vn \in ValueNameArgs \cup {Some(EmptyStr), Some(Str("w"))} :
    Ended([NoOp EXCEPT !.name = "is_file", !.p = p, !.value_name = vn],
          IsFile(Start, p, vn))

CallMkdir ==
  \E p \in OpPaths, parents \in BOOLEAN, exist_ok \in BOOLEAN :
    Ended([NoOp EXCEPT !.name = "mkdir", !.p = p, !.parents = parents,
                       !.exist_ok = exist_ok],
          Mkdir(Start, p, parents, exist_ok))

CallIterdir ==
  \E p \in OpPaths :
    Ended([NoOp EXCEPT !.name = "iterdir", !.p = p],
          Iterdir(Start, p))

CallUnlink ==
  \E p \in OpPaths, missing_ok \in BOOLEAN :
    Ended([NoOp EXCEPT !.name = "unlink", !.p = p, !.missing_ok = missing_ok],
          Unlink(Start, p, missing_ok))

CallRmdir ==
  \E p \in OpPaths :
    Ended([NoOp EXCEPT !.name = "rmdir", !.p = p],
          Rmdir(Start, p))

CallRmtree ==
  \E p \in OpPaths :
    Ended([NoOp EXCEPT !.name = "rmtree", !.p = p],
          Rmtree(Start, p))

CallReadRaw ==
  \E p \in OpPaths, vn \in ValueNameArgs :
    Ended([NoOp EXCEPT !.name = "read_raw", !.p = p, !.value_name = vn],
          ReadRaw(Start, p, vn))

CallWriteRaw ==
  \E p \in OpPaths, vn \in ValueNameArgs, typ \in ValueTypes :
    Ended([NoOp EXCEPT !.name = "write_raw", !.p = p, !.value_name = vn],
          WriteRaw(Start, p, typ, vn))

CallWrite ==
  \E p \in OpPaths, vn \in ValueNameArgs, value \in WriteValues,
     read_type \in BOOLEAN :
    Ended([NoOp EXCEPT !.name = "write", !.p = p, !.value_name = vn,
                       !.value = value, !.read_type = read_type],
          Write(Start, p, value, vn, read_type))

\* The caller has read the outcome of the call.
Return ==
  /\ pc = "done"
  /\ pc' = "idle"
  /\ op' = NoOp
  /\ pre' = EmptyRegistry
  /\ log' = <<>>
  /\ err' = ""
  /\ ret' = NoRet
  /\ UNCHANGED << store, handles, trail, cache >>

Next ==
  \/ EnvCreateKey
  \/ EnvSetValue
  \/ CallExists
  \/ CallIsFile
  \/ CallMkdir
  \/ CallIterdir
  \/ CallUnlink
  \/ CallRmdir
  \/ CallRmtree
  \/ CallReadRaw
  \/ CallWriteRaw
  \/ Return

Spec == Init /\ [][Next]_vars

\* Writes alone, to the root keys and to keys that are not there.
NextWrite ==
  \/ EnvSetValue
  \/ CallWrite
  \/ Return

SpecWrite == Init /\ [][NextWrite]_vars

\* ---------------------------------------------- path model state machine
\* An instance is constructed and further instances are derived from the
\* newest one, at most MaxTrail in all.  An entry of the trail is the call
\* that made the instance, with its arguments and its outcome.

MaxTrail == 3

\* First components: every spelling of every alias, and some that are none.
FirstComponents ==
  {Str(AliasUpper[i]) : i \in AliasIdx} \cup {Str(AliasLower[i]) : i \in AliasIdx}
  \cup {Str(AliasMixed[i]) : i \in AliasIdx}
  \cup {Str("NotRealKey"), Str("a"), EmptyStr}

RawPaths ==
  {f \o t : f \in FirstComponents, t \in {EmptyStr, << Sep, "a" >>}}
  \cup {<< c, Sep >> \o f : c \in {"Computer", "COMPUTER"},
                           f \in {Str("HKLM"), Str("hkcu"), Str("NotRealKey"),
                                  << "HKLM", Sep, "a" >>}}
  \cup {EmptyStr, Str("computer")}

ComputerArgsAll ==
  {NoneVal, Some(Str("h1")), Some(Str("Computer")), Some(<< Sep, Sep, "h1" >>)}

ChildNames == {Str("b"), EmptyStr, << "x", "/", "y" >>, << "a", Sep, "b" >>}

Entry(method, raw, value_name, computer, other, r) ==
  [method |-> method, raw |-> raw, value_name |-> value_name,
   computer |-> computer, other |-> other, err |-> r.err,
   path |-> IF r.err = "" THEN r.val ELSE NoPath]

Newest == trail[Len(trail)]

CanDerive == Len(trail) > 0 /\ Len(trail) < MaxTrail /\ Newest.err = ""

\* RegistryPath(raw_path, value_name, computer)
PathConstruct ==
  /\ trail = <<>>
  /\ pc = "idle"
  /\ \E raw \in RawPaths, vn \in ValueNameArgs, c \in ComputerArgsAll :
       trail' = << Entry("construct", raw, vn, c, EmptyStr, Construct(raw, vn, c)) >>
  /\ UNCHANGED regvars

\* newest / other
PathTruediv ==
  /\ CanDerive
  /\ \E other \in ChildNames :
       trail' = Append(trail, Entry("truediv", EmptyStr, NoneVal, NoneVal, other,
                                    Truediv(Newest.path, other)))
  /\ UNCHANGED regvars

\* newest.parent
PathParent ==
  /\ CanDerive
  /\ trail' = Append(trail, Entry("parent", EmptyStr, NoneVal, NoneVal, EmptyStr,
                                  Parent(Newest.path)))
  /\ UNCHANGED regvars

\* newest.with_value_name(value_name)
PathWithValueName ==
  /\ CanDerive
  /\ \E vn \in ValueNameArgs :
       trail' = Append(trail, Entry("with_value_name", EmptyStr, vn, NoneVal,
                                    EmptyStr, WithValueName(Newest.path, vn)))
  /\ UNCHANGED regvars

\* newest.parents: the value is the tuple.
PathParents ==
  /\ Len(trail) > 0
  /\ Newest.err = ""
  /\ op' = [NoOp EXCEPT !.name = "parents", !.p = Newest.path]
  /\ err' = Parents(Newest.path).err
  /\ ret' = [NoRet EXCEPT !.items = IF Parents(Newest.path).err = ""
                                    THEN Parents(Newest.path).val ELSE <<>>]
  /\ UNCHANGED << store, handles, pc, pre, log, trail, cache >>

NextPath ==
  \/ PathConstruct
  \/ PathTruediv
  \/ PathParent
  \/ PathWithValueName
  \/ PathParents

SpecPath == Init /\ [][NextPath]_vars

\* The instances an instance is compared with: key names and value names may
\* hold any character but the separator, " -> " and " On " among them.
OtherPaths ==
  {Construct(raw, vn, c).val :
     raw \in {<< "HKLM", Sep, "a" >>, << "HKLM", Sep, "a", " -> ", "v" >>},
     vn \in {NoneVal, Some(Str("v")), Some(<< "v", " On ", Sep, Sep, "h1" >>)},
     c \in ComputerArgs}

\* newest == other: the value is the bool, other is kept beside it.
PathEq ==
  /\ Len(trail) > 0
  /\ Newest.err = ""
  /\ \E other \in OtherPaths :
       /\ op' = [NoOp EXCEPT !.name = "eq", !.p = Newest.path]
       /\ ret' = [value |-> IF Eq(Newest.path, other) THEN "True" ELSE "False",
                  items |-> << other >>]
  /\ UNCHANGED << store, handles, pc, pre, log, err, trail, cache >>

NextEq ==
  \/ PathConstruct
  \/ PathEq

SpecEq == Init /\ [][NextEq]_vars

\* Instances are constructed one after another, at most MaxInstances, and
\* the derived properties of the newest one are read.
MaxInstances == 2

DerivedProperties == {"parts", "parents", "parent", "name", "subkey"}

CacheRawPaths == {<< "HKLM", Sep, "a" >>, << "HKLM", Sep, "a", " -> ", "v" >>}

\* RegistryPath(raw_path, value_name), one more instance.
CacheConstruct ==
  /\ Len(trail) < MaxInstances
  /\ \E raw \in CacheRawPaths, vn \in ValueNameArgs :
       trail' = Append(trail, Entry("construct", raw, vn, NoneVal, EmptyStr,
                                    Construct(raw, vn, NoneVal)))
  /\ op' = NoOp
  /\ err' = ""
  /\ ret' = NoRet
  /\ UNCHANGED << store, handles, pc, pre, log, cache >>

\* The caches after the newest instance has read a property, and whether
\* the read has raised.
PropertyRead(property, c, p, by) ==
  LET Outcome(r) == [cache |-> r.cache, err |-> r.err]
  IN  IF property = "parts" THEN Outcome(CachedParts(c, p, by))
      ELSE IF property = "parents" THEN Outcome(CachedParents(c, p, by))
      ELSE IF property = "parent" THEN Outcome(CachedParent(c, p, by))
      ELSE IF property = "name" THEN Outcome(CachedName(c, p, by))
      ELSE Outcome(CachedSubkey(c, p, by))

\* newest.parts, newest.parents, newest.parent, newest.name, newest.subkey:
\* the value read is the entry the cache of the property holds for the
\* instance after the read.
CacheRead ==
  /\ Len(trail) > 0
  /\ Newest.err = ""
  /\ \E property \in DerivedProperties :
       LET Done(r) ==
             /\ cache' = r.cache
             /\ err' = r.err
             /\ op' = [NoOp EXCEPT !.name = property, !.p = Newest.path]
             /\ ret' = [NoRet EXCEPT !.value =
                          IF Hit(cache[property], Newest.path)
                          THEN "hit" ELSE "miss"]
       IN  Done(PropertyRead(property, cache, Newest.path, Len(trail)))
  /\ UNCHANGED << store, handles, pc, pre, log, trail >>

NextCache ==
  \/ CacheConstruct
  \/ CacheRead

SpecCache == Init /\ [][NextCache]_vars

\* ----------------------------------------------------------- properties
\* What follows is stated over the call that has just ended (pc = "done"):
\* op is the call, pre the registries it began in, store the registries it
\* left, log the calls it made, err and ret its outcome.

Did(method) == pc = "done" /\ op.name = method

\* The calls of some kinds among the calls made, in order.
Calls(evs) == SelectSeq(log, LAMBDA e : e.ev \in evs)

\* The last name of a key.
LastName(k) == k[Len(k)]

\* The path is a key that was in the registry when the call began.
WasContainer(p) ==
  p.value_name = NoneVal /\ HasKey(pre, p.computer, KeyOf(p))

\* The path, a key or a value, was in the registry when the call began.
WasThere(p) ==
  /\ HasKey(pre, p.computer, KeyOf(p))
  /\ p.value_name = NoneVal
       \/ HasValue(pre, p.computer, KeyOf(p), p.value_name[1])

\* The registries after one more call of the log.
Applied(st, e) ==
  IF ~e.ok THEN st
  ELSE IF e.ev = "CreateKey"
  THEN WithKey(st, e.host, e.key, e.key \o KeyPathOf(e.name))
  ELSE IF e.ev = "DeleteKey"
  THEN WithoutKey(st, e.host, e.key \o KeyPathOf(e.name))
  ELSE IF e.ev = "DeleteValue"
  THEN WithoutValue(st, e.host, e.key, e.name)
  ELSE st

\* The registries after the first n calls of the log.
RECURSIVE StoreAfter(_)
StoreAfter(n) == IF n = 0 THEN pre ELSE Applied(StoreAfter(n - 1), log[n])

\* C1: rmtree on an existing key returns without error, and afterwards
\* neither the key nor any key or value below it is in the registry.  Stated
\* for the keys of the local computer below the root.
C1_RmtreeRemovesEverything ==
  (/\ Did("rmtree")
   /\ WasContainer(op.p)
   /\ op.p.computer = LocalHost
   /\ KeyOf(op.p) # <<>>)
  => /\ err = ""
     /\ \A k \in store[op.p.computer].keys : ~IsPrefix(KeyOf(op.p), k)
     /\ \A x \in store[op.p.computer].vals : ~IsPrefix(KeyOf(op.p), x.key)

\* C2: no handle is open once a call has returned or raised: every
\* connection and every key handle the call opened has been closed, the
\* connection also when OpenKey raised after ConnectRegistry returned.
C2_HandlesReleased ==
  /\ handles = <<>>
  /\ Len(SelectSeq(log, LAMBDA e : e.ok /\ e.ev \in {"ConnectRegistry", "OpenKey",
                                                     "CreateKey"}))
       = Len(Calls({"CloseKey"}))

\* C2 witness: a call ended with OpenKey raising on a connection that
\* ConnectRegistry had opened, and the connection was closed.
C2_Witness ==
  /\ pc = "done"
  /\ handles = <<>>
  /\ \E i \in DOMAIN log :
       /\ log[i].ev = "OpenKey" /\ ~log[i].ok
       /\ i > 1 /\ log[i - 1].ev = "ConnectRegistry"
       /\ i < Len(log) /\ log[i + 1].ev = "CloseKey"

\* C4: is_file(value_name) is true exactly when the effective value name
\* (the argument if given, else the path's own) is not None and the path
\* with that value name exists.
C4_IsFileIffEffectiveValueExists ==
  Did("is_file") =>
    LET eff == IF op.value_name # NoneVal THEN op.value_name ELSE op.p.value_name
    IN  /\ err = ""
        /\ ret.value = IF /\ eff # NoneVal
                             /\ WasThere([op.p EXCEPT !.value_name = eff])
                          THEN "True" ELSE "False"

\* C6: unlink of a value that is not in the registry (its key may be
\* missing too) returns silently with missing_ok and raises FileNotFoundError
\* without it, and leaves the registry as it was; unlink of a path without a
\* value name raises and calls nothing.
C6_UnlinkMissing ==
  Did("unlink") =>
    /\ op.p.value_name = NoneVal =>
         /\ err = "FileNotFoundError"
         /\ store = pre
         /\ Len(log) = 1
    /\ (op.p.value_name # NoneVal /\ ~WasThere(op.p)) =>
         /\ store = pre
         /\ err = IF op.missing_ok THEN "" ELSE "FileNotFoundError"

\* The keys above a key, the root among them.
Ancestors(k) == {SubSeq(k, 1, n) : n \in 0..(Len(k) - 1)}

\* The CreateKey calls made on a handle of the path's parent key, naming the
\* path's last name.
TerminalCreates(p) ==
  {i \in DOMAIN log :
     /\ log[i].ev = "CreateKey"
     /\ log[i].host = p.computer
     /\ log[i].key = DropLast(KeyOf(p), 1)
     /\ log[i].name = LastName(KeyOf(p))}

\* C7: mkdir(parents=True) of a key that does not exist calls
\* mkdir(exist_ok=True) on every ancestor, makes exactly one CreateKey call
\* for the key itself, on its parent's handle and with every ancestor in the
\* registry by then, and the key exists when the call returns.
C7_MkdirParents ==
  (/\ Did("mkdir")
   /\ op.parents
   /\ op.p.value_name = NoneVal
   /\ ~HasKey(pre, op.p.computer, KeyOf(op.p)))
  => /\ err = ""
     /\ HasKey(store, op.p.computer, KeyOf(op.p))
     /\ Cardinality(TerminalCreates(op.p)) = 1
     /\ \A i \in TerminalCreates(op.p) : \A a \in Ancestors(KeyOf(op.p)) :
          HasKey(StoreAfter(i - 1), op.p.computer, a)
     /\ \A a \in Ancestors(KeyOf(op.p)) : \E i \in DOMAIN log :
          /\ log[i].ev = "mkdir"
          /\ log[i].host = op.p.computer
          /\ log[i].key = a
          /\ log[i].name = Str("exist_ok=True")

\* C8: rmdir of a key with a sub key or a value raises OSError, calls no
\* DeleteKey and leaves the registry as it was; rmdir of a key without
\* children makes exactly one DeleteKey call, on a handle of the key's parent
\* and naming the key's last name.  Stated for the keys below the root.
C8_RmdirOnlyWhenEmpty ==
  (Did("rmdir") /\ WasContainer(op.p) /\ KeyOf(op.p) # <<>>)
  => IF Len(ChildKeys(pre, op.p.computer, KeyOf(op.p)))
          + Len(ChildValues(pre, op.p.computer, KeyOf(op.p))) > 0
     THEN /\ err = "OSError"
          /\ Calls({"DeleteKey"}) = <<>>
          /\ store = pre
     ELSE Calls({"DeleteKey"})
            = << Event("DeleteKey", op.p.computer, DropLast(KeyOf(op.p), 1),
                       LastName(KeyOf(op.p)), 0, TRUE) >>

\* The items iterdir is to yield: the path / name for the key's sub keys in
\* enumeration order, then the path with the name of each of its values.
ExpectedChildren(p) ==
  LET ks == ChildKeys(pre, p.computer, KeyOf(p))
      vs == ChildValues(pre, p.computer, KeyOf(p))
  IN  [i \in 1..Len(ks) |->
         [p EXCEPT !.raw_path = p.raw_path \o << Sep >> \o ks[i]]]
      \o [i \in 1..Len(vs) |-> [p EXCEPT !.value_name = Some(vs[i])]]

\* The indices passed to the calls of one kind, in order.
Indices(ev) == [i \in DOMAIN Calls({ev}) |-> Calls({ev})[i].index]

\* C9: iterdir on an existing key with k sub keys and v values yields k + v
\* items: path / name for the sub keys of index 0 .. k-1 in that order, then
\* path.with_value_name(name) for the values of index 0 .. v-1 in that
\* order, each index enumerated once; on anything else it raises
\* NotADirectoryError and yields nothing.
C9_IterdirKeysThenValues ==
  Did("iterdir") =>
    IF WasContainer(op.p)
    THEN LET k == Len(ChildKeys(pre, op.p.computer, KeyOf(op.p)))
             v == Len(ChildValues(pre, op.p.computer, KeyOf(op.p)))
         IN  /\ err = ""
             /\ Len(ret.items) = k + v
             /\ ret.items = ExpectedChildren(op.p)
             /\ Indices("EnumKey") = [i \in 1..k |-> i - 1]
             /\ Indices("EnumValue") = [i \in 1..v |-> i - 1]
             /\ Calls({"EnumKey", "EnumValue"})
                  = Calls({"EnumKey"}) \o Calls({"EnumValue"})
    ELSE /\ err = "NotADirectoryError"
         /\ ret.items = <<>>
         /\ Calls({"EnumKey", "EnumValue"}) = <<>>

\* C9 witness: iterdir has yielded the two sub keys and the value of a key.
C9_Witness ==
  /\ Did("iterdir")
  /\ err = ""
  /\ Len(ret.items) = 3
  /\ Len(Calls({"EnumKey"})) = 2
  /\ Len(Calls({"EnumValue"})) = 1

\* The call was rmtree on a key that held one sub key, itself empty, and one
\* value, and nothing else.
RmtreeOfOneKeyOneValue ==
  /\ Did("rmtree")
  /\ WasContainer(op.p)
  /\ Len(ChildKeys(pre, op.p.computer, KeyOf(op.p))) = 1
  /\ Len(ChildValues(pre, op.p.computer, KeyOf(op.p))) = 1
  /\ LET sub == Append(KeyOf(op.p), ChildKeys(pre, op.p.computer, KeyOf(op.p))[1])
     IN  Len(ChildKeys(pre, op.p.computer, sub))
           + Len(ChildValues(pre, op.p.computer, sub)) = 0

\* The deletions made, in order: what was called, on a handle of which key,
\* with which name.
Deletions ==
  LET d == Calls({"DeleteKey", "DeleteValue"})
  IN  [i \in DOMAIN d |-> << d[i].ev, d[i].key, d[i].name >>]

DeleteOfSubKey(p) ==
  << "DeleteKey", KeyOf(p), ChildKeys(pre, p.computer, KeyOf(p))[1] >>

DeleteOfValue(p) ==
  << "DeleteValue", KeyOf(p), ChildValues(pre, p.computer, KeyOf(p))[1] >>

DeleteOfSelf(p) ==
  << "DeleteKey", DropLast(KeyOf(p), 1), Name(p) >>

AliasesOf(first) ==
  {i \in AliasIdx :
     first \in {Str(AliasUpper[i]), Str(AliasLower[i]), Str(AliasMixed[i])}}

\* C3: a path whose first component is an upper-, lower- or mixed-case
\* spelling of an alias is constructed, with the root constant of the
\* upper-case alias; any other first component raises HKeyNotFoundError.
C3_RootCaseInsensitive ==
  \A n \in DOMAIN trail :
    (trail[n].method = "construct" /\ trail[n].raw # EmptyStr) =>
      LET first == Split(NormRawPath(trail[n].raw))[1]
      IN  IF AliasesOf(first) # {}
          THEN /\ trail[n].err = ""
               /\ trail[n].path.key
                    = REGISTRY_KEYS[Str(AliasUpper[CHOOSE i \in AliasesOf(first) : TRUE])]
          ELSE trail[n].err = "HKeyNotFoundError"

\* C5: for a path a without a value name, on the local or on a remote
\* computer, and a name n without a backslash, (a / n).parent == a.
C5_ParentOfChildIsSelf ==
  \A n \in DOMAIN trail :
    (/\ n > 1
     /\ trail[n].method = "truediv"
     /\ trail[n - 1].path.value_name = NoneVal
     /\ \A i \in DOMAIN trail[n].other : trail[n].other[i] # Sep)
    => /\ trail[n].err = ""
       /\ (n < Len(trail) /\ trail[n + 1].method = "parent") =>
            /\ trail[n + 1].err = ""
            /\ Eq(trail[n + 1].path, trail[n - 1].path)

\* ------------------------------------------------------- write
\* The name of the value a call of write is about: the argument, else the
\* path's own.
WrittenName == PyOr(op.value_name, op.p.value_name)

\* The types (none or one) that value had when the call began.
TypesBefore ==
  {w.typ : w \in {x \in pre[op.p.computer].vals :
                    x.key = KeyOf(op.p) /\ x.name = WrittenName[1]}}

\* The calls of write_raw the call made, and the types passed to them.
WriteRawCalls == Calls({"write_raw"})

TypesPassed == {WriteRawCalls[i].name[1] : i \in DOMAIN WriteRawCalls}

\* The table of types by value.
PercentPositions(text) == {i \in DOMAIN text : text[i] = "%"}

EvenPositive(n) == \E k \in 1..n : n = k + k

TableType(value) ==
  CASE value.kind = "str" ->
         IF EvenPositive(Cardinality(PercentPositions(value.text)))
         THEN "REG_EXPAND_SZ" ELSE "REG_SZ"
    [] value.kind = "list" -> "REG_MULTI_SZ"
    [] value.kind = "NoneType" -> "REG_NONE"
    [] value.kind \in {"int", "bool"} ->
         IF value.limbs[1] = 0 THEN "REG_DWORD" ELSE "REG_QWORD"
    [] OTHER -> "REG_BINARY"

IsNegative(value) == value.kind = "int" /\ value.neg

\* C11: write with read_type=True passes to write_raw exactly the type the
\* value already has in the registry, whatever the value written (so no
\* ValueError for a negative number either); when the value is not in the
\* registry the type passed is the one of the table, and a negative number
\* is refused with ValueError before any call of write_raw.
C11_WriteInfersFromExisting ==
  (Did("write") /\ op.read_type /\ WrittenName # NoneVal) =>
    IF TypesBefore # {}
    THEN /\ Len(WriteRawCalls) = 1
         /\ TypesPassed = TypesBefore
         /\ err = ""
         /\ \A w \in store[op.p.computer].vals :
              (w.key = KeyOf(op.p) /\ w.name = WrittenName[1])
                => w.typ \in TypesBefore
    ELSE IF IsNegative(op.value)
    THEN err = "ValueError" /\ Len(WriteRawCalls) = 0
    ELSE Len(WriteRawCalls) = 1 /\ TypesPassed = {TableType(op.value)}

\* A negative number was written over a value of type REG_EXPAND_SZ.
C11_Witness ==
  /\ Did("write") /\ op.read_type /\ WrittenName # NoneVal
  /\ TypesBefore = {"REG_EXPAND_SZ"}
  /\ IsNegative(op.value)
  /\ TypesPassed = {"REG_EXPAND_SZ"}
  /\ err = ""

\* C12: write with read_type=False passes to write_raw the type of the
\* table: REG_EXPAND_SZ for a str with an even, positive number of "%" and
\* REG_SZ for any other str, REG_MULTI_SZ for a list, REG_NONE for None,
\* REG_DWORD for an int from 0 to 0xFFFFFFFF, both included, REG_QWORD for
\* an int above 0xFFFFFFFF, REG_BINARY for anything else; a negative int is
\* refused with ValueError and write_raw is not called.
C12_WriteGuessesType ==
  (Did("write") /\ ~op.read_type /\ WrittenName # NoneVal) =>
    IF IsNegative(op.value)
    THEN /\ err = "ValueError"
         /\ Len(WriteRawCalls) = 0
         /\ store = pre
    ELSE /\ Len(WriteRawCalls) = 1
         /\ TypesPassed = {TableType(op.value)}
         /\ err # "ValueError"
         /\ HasKey(pre, op.p.computer, KeyOf(op.p)) =>
              [key |-> KeyOf(op.p), name |-> WrittenName[1],
               typ |-> TableType(op.value)] \in store[op.p.computer].vals

\* 0xFFFFFFFF was written as a REG_DWORD.
C12_Witness ==
  /\ Did("write") /\ ~op.read_type /\ WrittenName # NoneVal
  /\ op.value = IntValue(FALSE, MaxDword)
  /\ TypesPassed = {"REG_DWORD"}
  /\ err = ""
  /\ TypesBefore = {"REG_SZ"}

\* ------------------------------------------------------- parents
\* The subkey names between the root and the terminal key of a path.
Segments(p) == Tail(PathSplit(p))

\* The path of a root alone.
IsRootOnly(p) ==
  p.value_name = NoneVal /\ Len(PathSplit(p)) = 1 /\ p.raw_path = PathSplit(p)[1]

\* The tuple that parents gave is a chain: its first element is the parent
\* of the path, each further element is the parent of the one before it,
\* each element has fewer parts than the one before it, and the last one,
\* if any, is a root alone.
IsAncestorChain(p, chain) ==
  /\ \A i \in DOMAIN chain :
       LET before == IF i = 1 THEN p ELSE chain[i - 1]
       IN  /\ Parent(before).err = ""
           /\ chain[i] = Parent(before).val
           /\ Len(Parts(chain[i])) < Len(Parts(before))
  /\ Len(chain) > 0 => IsRootOnly(chain[Len(chain)])

\* C13 as stated: parents is the chain of ancestors, nearest first, ending
\* at the root alone, and it has len(segments) - 1 elements for a path with
\* no value name and len(segments) elements for a path with a value name.
C13_ParentsLengthOneLess ==
  op.name = "parents" =>
    /\ err = ""
    /\ IsAncestorChain(op.p, ret.items)
    /\ Len(ret.items) = IF op.p.value_name = NoneVal
                        THEN Len(Segments(op.p)) - 1
                        ELSE Len(Segments(op.p))

\* C13, amended: parents is the chain of ancestors, nearest first, ending
\* at the root alone when it is not empty, and it has len(segments)
\* elements for a path with no value name and len(segments) + 1 elements
\* for a path with a value name.
C13_ParentsLength ==
  op.name = "parents" =>
    /\ err = ""
    /\ IsAncestorChain(op.p, ret.items)
    /\ Len(ret.items) = IF op.p.value_name = NoneVal
                        THEN Len(Segments(op.p))
                        ELSE Len(Segments(op.p)) + 1

\* parents was read of a value two keys below the root: three elements.
C13_Witness ==
  /\ op.name = "parents"
  /\ op.p.value_name # NoneVal
  /\ Len(Segments(op.p)) = 2
  /\ Len(ret.items) = 3
  /\ IsRootOnly(ret.items[3])

\* ------------------------------------------------------- equality
\* Two instances have the same host, the same raw path and the same value
\* name.
SameComponents(p, q) ==
  /\ p.computer = q.computer
  /\ p.raw_path = q.raw_path
  /\ p.value_name = q.value_name

\* C14: two instances compare equal, and have the same hash, if and only if
\* they have the same host, the same raw path and the same value name.
C14_EqualIffSameComponents ==
  op.name = "eq" =>
    /\ (ret.value = "True") <=> SameComponents(op.p, ret.items[1])
    /\ (Hash(op.p) = Hash(ret.items[1])) <=> SameComponents(op.p, ret.items[1])

\* ------------------------------------------------------- memoization
\* The entry of a cache from which the read that has just ended took its
\* value.
ReadEntry == Cached(cache[op.name], op.p)

\* C15: the value an instance reads of parts, parents, parent, name or
\* subkey is the one computed from the instance's own raw path, value name
\* and host, and it is not an object that was made for another instance.
C15_NoLeakAcrossInstances ==
  (op.name \in DerivedProperties /\ err = "") =>
    /\ ReadEntry.by = Len(trail)
    /\ op.name = "parts" => ReadEntry.val = Parts(op.p)
    /\ op.name = "parents" => ReadEntry.val = Parents(op.p).val
    /\ op.name = "parent" => ReadEntry.val = Parent(op.p).val
    /\ op.name = "name" => ReadEntry.val = Name(op.p)
    /\ op.name = "subkey" => ReadEntry.val = Subkey(op.p)

\* ------------------------------------------------------- hosts
\* The calls of winreg.
StorePrimitives ==
  {"ConnectRegistry", "OpenKey", "CloseKey", "QueryValueEx", "QueryInfoKey",
   "EnumKey", "EnumValue", "CreateKey", "DeleteKey", "DeleteValue",
   "SetValueEx"}

\* C16: every winreg call that mkdir (with or without parents), rmdir and
\* rmtree make for a path is made on the path's computer, and the registry
\* of every other computer, the local one for a remote path, is left as it
\* was.
C16_OnlyOwnHost ==
  (Did("mkdir") \/ Did("rmdir") \/ Did("rmtree")) =>
    /\ \A i \in DOMAIN log :
         log[i].ev \in StorePrimitives => log[i].host = op.p.computer
    /\ \A h \in Hosts \ {op.p.computer} : store[h] = pre[h]


====
